---- MODULE Spec2Model ----
(***************************************************************************)
(* Model of src/windows/process.rs: the per-process record (struct        *)
(* Process), its construction (new_from_pid, new_full, new_with_handle),  *)
(* its refresh (update, compute_cpu_usage, update_disk_usage), its        *)
(* readers (disk_usage), its destruction (Drop), and the helper           *)
(* algorithms get_start_and_run_time, check_sub, get_proc_env and         *)
(* ph_query_process_variable_size.                                        *)
(*                                                                         *)
(* u64 values are held as three limbs <<hi, mid, lo>> in radix 10^7, so    *)
(* that the full 64-bit range (and its wrap at 2^64) is exact although     *)
(* TLC's own integers are narrower.  f32 values are held as               *)
(* <<m, k>>, meaning m * 2^k with m odd (or <<0, 0>> for 0.0).             *)
(***************************************************************************)
EXTENDS Integers, Sequences, FiniteSets, TLC

(***************************************************************************)
(* u64 arithmetic                                                          *)
(***************************************************************************)
Radix == 10 ^ 7

\* the u64 with limbs hi, mid, lo: hi * 10^14 + mid * 10^7 + lo
U64(hi, mid, lo) == <<hi, mid, lo>>

Zero64 == U64(0, 0, 0)

\* 2^64 = 18,446,744,073,709,551,616
TwoTo64 == U64(184467, 4407370, 9551616)

U64Lt(a, b) ==
    \/ a[1] < b[1]
    \/ a[1] = b[1] /\ a[2] < b[2]
    \/ a[1] = b[1] /\ a[2] = b[2] /\ a[3] < b[3]

\* a + b, limb by limb with carry (no reduction: the callers keep it below 10^21)
U64Plus(a, b) ==
    LET l  == a[3] + b[3]
        cl == l \div Radix
        m  == a[2] + b[2] + cl
        cm == m \div Radix
    IN  <<a[1] + b[1] + cm, m % Radix, l % Radix>>

\* a - b for a >= b, limb by limb with borrow
U64Minus(a, b) ==
    LET l  == a[3] - b[3]
        bl == IF l < 0 THEN 1 ELSE 0
        m  == a[2] - b[2] - bl
        bm == IF m < 0 THEN 1 ELSE 0
    IN  <<a[1] - b[1] - bm, m + bm * Radix, l + bl * Radix>>

\* Rust's `a - b` on u64: the difference when a >= b; otherwise the
\* subtraction overflows, and the value a build without overflow checks
\* goes on with is a - b + 2^64.
u64_sub(a, b) ==
    IF U64Lt(a, b)
    THEN [overflow |-> TRUE,  value |-> U64Minus(U64Plus(a, TwoTo64), b)]
    ELSE [overflow |-> FALSE, value |-> U64Minus(a, b)]

\* `tmp / 10_000_000`: in radix 10^7 the quotient drops the low limb
div_10_000_000(a) == <<0, a[1], a[2]>>

\* the value of a u64 that fits a TLC integer
U64ToNat(a) == (a[1] * Radix + a[2]) * Radix + a[3]

check_sub_saturating(a, b) == IF U64Lt(a, b) THEN Zero64 ELSE U64Minus(a, b)

\* fn check_sub(a: u64, b: u64) -> u64
check_sub(a, b) == IF U64Lt(a, b) THEN a ELSE U64Minus(a, b)

(***************************************************************************)
(* f64 / f32 arithmetic, round-to-nearest-even                             *)
(***************************************************************************)
RECURSIVE StripTwos(_, _)
StripTwos(m, k) == IF m = 0 THEN <<0, 0>>
                   ELSE IF m % 2 = 0 THEN StripTwos(m \div 2, k + 1)
                   ELSE <<m, k>>

RECURSIVE ExcessBits(_)
\* how many low bits M has beyond a 24-bit significand
ExcessBits(M) == IF M < 2 ^ 24 THEN 0 ELSE 1 + ExcessBits(M \div 2)

\* the f32 nearest to M * 2^k, M a natural number
RoundNat24(M, k) ==
    LET n    == ExcessBits(M)
        q    == M \div (2 ^ n)
        r    == M % (2 ^ n)
        half == IF n = 0 THEN 0 ELSE 2 ^ (n - 1)
        up   == n > 0 /\ (r > half \/ (r = half /\ q % 2 = 1))
    IN  StripTwos(IF up THEN q + 1 ELSE q, k + n)

\* f32 * f32
MulF32(a, b) == RoundNat24(a[1] * b[1], a[2] + b[2])

\* `n as f32` for a natural number n
NatToF32(n) == RoundNat24(n, 0)

RECURSIVE Normalise(_, _, _)
\* p / q = (p' / q') * 2^e with 1 <= p'/q' < 2
Normalise(p, q, e) ==
    IF p >= 2 * q THEN Normalise(p, 2 * q, e + 1)
    ELSE IF p < q THEN Normalise(2 * p, q, e - 1)
    ELSE [p |-> p, q |-> q, e |-> e]

RECURSIVE Expand(_, _, _, _)
\* the first n binary digits of r / q (r < q) after those of acc, and the
\* remainder left
Expand(r, q, n, acc) ==
    IF Len(acc) = n THEN [bits |-> acc, rem |-> r]
    ELSE IF 2 * r >= q THEN Expand(2 * r - q, q, n, Append(acc, 1))
    ELSE Expand(2 * r, q, n, Append(acc, 0))

RECURSIVE IncBits(_)
\* a bit string plus one: the bits and the carry out
IncBits(s) ==
    IF s = <<>> THEN [bits |-> <<>>, carry |-> 1]
    ELSE LET n == Len(s)
         IN  IF s[n] = 0
             THEN [bits |-> [s EXCEPT ![n] = 1], carry |-> 0]
             ELSE LET hi == IncBits(SubSeq(s, 1, n - 1))
                  IN  [bits |-> Append(hi.bits, 0), carry |-> hi.carry]

\* round a significand (leading bit first) given the first dropped bit and
\* whether anything non-zero follows it; a carry out of the top renormalises
RoundSig(sig, e, round, sticky) ==
    LET up  == round = 1 /\ (sticky \/ sig[Len(sig)] = 1)
        inc == IncBits(sig)
    IN  IF ~up THEN [sig |-> sig, e |-> e]
        ELSE IF inc.carry = 0 THEN [sig |-> inc.bits, e |-> e]
        ELSE [sig |-> <<1>> \o SubSeq(inc.bits, 1, Len(sig) - 1), e |-> e + 1]

\* `p as f64 / q as f64` for naturals p > 0, q > 0: a 53-bit significand
DivF64(p, q) ==
    LET n == Normalise(p, q, 0)
        x == Expand(n.p - n.q, n.q, 53, <<>>)
    IN  RoundSig(<<1>> \o SubSeq(x.bits, 1, 52), n.e, x.bits[53], x.rem # 0)

RECURSIVE BitsToNat(_)
BitsToNat(s) == IF s = <<>> THEN 0
                ELSE 2 * BitsToNat(SubSeq(s, 1, Len(s) - 1)) + s[Len(s)]

\* `x as f32` for an f64 x: a 24-bit significand
F64ToF32(x) ==
    LET r == RoundSig(SubSeq(x.sig, 1, 24), x.e, x.sig[25],
                      \E i \in 26..53 : x.sig[i] = 1)
    IN  StripTwos(BitsToNat(r.sig), r.e - 23)

\* `(p as f64 / q as f64) as f32`: 0.0 for p = 0, q > 0
QuotientF32(p, q) == IF p = 0 THEN <<0, 0>> ELSE F64ToF32(DivF64(p, q))

F32Zero == <<0, 0>>


(***************************************************************************)
(* The record and the operating system around it                           *)
(***************************************************************************)
VARIABLES
    build,     \* "checked" or "unchecked": whether the build panics on integer overflow
    life,      \* "NotCreated", "Live" or "Destroyed": the record's lifecycle
    p,         \* the fields of struct Process while the record is live
    os,        \* the OS side: handles open, CloseHandle calls, OpenProcess calls
    call,      \* the last call made on this file's API and how it ended
    cpu_obs,   \* what the last compute_cpu_usage call read and computed
    usage,     \* the DiskUsage the last disk_usage() call returned
    env,       \* the last get_proc_env call: buffer read and entries returned
    query,     \* the last ph_query_process_variable_size call
    params_obs \* the last get_process_params call: OS answers and result

vars == <<build, life, p, os, call, cpu_obs, usage, env, query, params_obs>>

\* bounds of the model
MaxPid == 1
MaxOpens == 2
MaxTick == 2
MaxIo == 2
MaxBuf == 4
MaxRet == 5

NULL == 0
Handles == 1..MaxOpens

\* 11_644_473_600: seconds between 1601-01-01 and 1970-01-01
EPOCH_DELTA == U64(0, 1164, 4473600)

NoProcess == [absent |-> TRUE]

\* CPUsageCalculationValues::new()
CPUsageCalculationValues_new ==
    [old_process_sys_cpu  |-> Zero64,
     old_process_user_cpu |-> Zero64,
     old_system_sys_cpu   |-> Zero64,
     old_system_user_cpu  |-> Zero64]

\* PathBuf::pop on a path held as its sequence of components
pop(path) == IF path = <<>> THEN <<>> ELSE SubSeq(path, 1, Len(path) - 1)

\* OpenProcess for `pid`: the OS either refuses (null) or hands out a handle
\* not handed out before
OpenProcess(o, pid, granted) ==
    LET h == IF granted THEN Cardinality(o.issued) + 1 ELSE NULL
    IN  [handle |-> h,
         os |-> [o EXCEPT !.open_calls = @ \cup {pid},
                          !.issued = IF granted THEN @ \cup {h} ELSE @,
                          !.open   = IF granted THEN @ \cup {h} ELSE @]]

\* CloseHandle(h)
CloseHandle(o, h) ==
    [o EXCEPT !.open = @ \ {h},
              !.closes = [@ EXCEPT ![h] = @ + 1]]

\* fn get_process_handler(pid: Pid) -> Option<HANDLE>: NULL stands for None
get_process_handler(o, pid, granted) ==
    IF pid = 0 THEN [handle |-> NULL, os |-> o]
    ELSE OpenProcess(o, pid, granted)

start_without_epoch(tmp, now) ==
    LET start == div_10_000_000(tmp)
    IN  [overflow |-> FALSE, start |-> start, run_time |-> check_sub(now, start)]

\* unsafe fn get_start_and_run_time(handle, now) -> (u64, u64); tmp is the
\* creation time GetProcessTimes left in fstart (0 when the call failed)
get_start_and_run_time(tmp, now) ==
    LET s == u64_sub(div_10_000_000(tmp), EPOCH_DELTA)
    IN  [overflow |-> s.overflow,
         start    |-> s.value,
         run_time |-> check_sub(now, s.value)]

(***************************************************************************)
(* Wide strings, the environment block, the variable-size query            *)
(***************************************************************************)
NUL == 0
EQUALS == 61
REPLACEMENT_CHARACTER == 65533

IsHighSurrogate(c) == c >= 55296 /\ c <= 56319
IsLowSurrogate(c) == c >= 56320 /\ c <= 57343

RECURSIVE to_string_lossy(_)
\* OsString::from_wide(units).to_string_lossy(): a surrogate pair is one
\* character, an unpaired surrogate becomes U+FFFD
to_string_lossy(units) ==
    IF units = <<>> THEN <<>>
    ELSE IF Len(units) >= 2 /\ IsHighSurrogate(units[1]) /\ IsLowSurrogate(units[2])
    THEN <<65536 + (units[1] - 55296) * 1024 + (units[2] - 56320)>>
             \o to_string_lossy(SubSeq(units, 3, Len(units)))
    ELSE <<IF IsHighSurrogate(units[1]) \/ IsLowSurrogate(units[1])
           THEN REPLACEMENT_CHARACTER ELSE units[1]>>
             \o to_string_lossy(Tail(units))

\* slice.iter().position(|&x| x == 0), counted from 0; -1 stands for None
position_of_nul(slice) ==
    IF \E i \in 1..Len(slice) : slice[i] = NUL
    THEN (CHOOSE i \in 1..Len(slice) :
              slice[i] = NUL /\ \A j \in 1..(i - 1) : slice[j] # NUL) - 1
    ELSE -1

\* unsafe fn null_terminated_wchar_to_string(slice: &[u16]) -> String
null_terminated_wchar_to_string(slice) ==
    LET pos == position_of_nul(slice)
    IN  IF pos >= 0 THEN to_string_lossy(SubSeq(slice, 1, pos))
        ELSE to_string_lossy(slice)

RECURSIVE env_loop_no_break(_, _, _)
env_loop_no_break(raw_env, begin, result) ==
    LET offset == position_of_nul(SubSeq(raw_env, begin + 1, Len(raw_env)))
        end    == begin + offset
        seg    == SubSeq(raw_env, begin + 1, end)
    IN  IF offset < 0 THEN result
        ELSE IF \E i \in 1..Len(seg) : seg[i] = EQUALS
        THEN env_loop_no_break(raw_env, end + 1, Append(result, to_string_lossy(seg)))
        ELSE env_loop_no_break(raw_env, end + 1, result)

RECURSIVE env_loop(_, _, _)
\* the `while let` loop of get_proc_env; begin and end are the code's
\* 0-based indices into raw_env
env_loop(raw_env, begin, result) ==
    LET offset == position_of_nul(SubSeq(raw_env, begin + 1, Len(raw_env)))
        end    == begin + offset
        seg    == SubSeq(raw_env, begin + 1, end)
    IN  IF offset < 0 THEN result
        ELSE IF \E i \in 1..Len(seg) : seg[i] = EQUALS
        THEN env_loop(raw_env, end + 1, Append(result, to_string_lossy(seg)))
        ELSE result

\* fn get_proc_env(params, handle) -> Vec<String>; r is what
\* params.get_environ(handle) returned
get_proc_env(r) == IF r.ok THEN env_loop(r.buffer, 0, <<>>) ELSE <<>>

\* fn get_cwd(params, handle) -> PathBuf; r is what params.get_cwd(handle) returned
get_cwd(r) == IF r.ok THEN null_terminated_wchar_to_string(r.buffer) ELSE <<>>

STATUS_SUCCESS == 0
STATUS_PENDING == 259
STATUS_BUFFER_OVERFLOW == -2147483643
STATUS_BUFFER_TOO_SMALL == -1073741789
STATUS_INFO_LENGTH_MISMATCH == -1073741820
STATUS_ACCESS_DENIED == -1073741790

NT_SUCCESS(status) == status >= 0

\* a u16 the OS wrote into a query buffer
OS_DATA == 1

None == [some |-> FALSE, buffer |-> <<>>]
Some(buffer) == [some |-> TRUE, buffer |-> buffer]

ph_query_partial_buffer(q) ==
    LET buf_len == q.return_length \div 2
    IN  IF /\ q.status1 # STATUS_BUFFER_OVERFLOW
           /\ q.status1 # STATUS_BUFFER_TOO_SMALL
           /\ q.status1 # STATUS_INFO_LENGTH_MISMATCH
        THEN [result |-> None, capacity |-> 0, told |-> 0, second |-> FALSE]
        ELSE [result   |-> Some([i \in 1..buf_len |-> OS_DATA] \o <<0>>),
              capacity |-> buf_len + 1, told |-> q.return_length, second |-> TRUE]

\* unsafe fn ph_query_process_variable_size(handle, class) -> Option<Vec<u16>>;
\* q holds what the OS answered: the first call's status and return length,
\* and the second call's status.  Also reported: the capacity allocated (in
\* u16 elements), the byte size the second call was told, and whether a
\* second call was made
ph_query_process_variable_size(q) ==
    LET buf_len == q.return_length \div 2
    IN  IF /\ q.status1 # STATUS_BUFFER_OVERFLOW
           /\ q.status1 # STATUS_BUFFER_TOO_SMALL
           /\ q.status1 # STATUS_INFO_LENGTH_MISMATCH
        THEN [result |-> None, capacity |-> 0, told |-> 0, second |-> FALSE]
        ELSE IF ~NT_SUCCESS(q.status2)
        THEN [result |-> None, capacity |-> buf_len + 1,
              told |-> q.return_length, second |-> TRUE]
        ELSE [result   |-> Some([i \in 1..buf_len |-> OS_DATA] \o <<0>>),
              capacity |-> buf_len + 1, told |-> q.return_length, second |-> TRUE]

SPACE == 32

\* the NUL-terminated string that starts at the head of mem
c_string(mem) == SubSeq(mem, 1, position_of_nul(mem))

\* CommandLineToArgvW for a command line without quotes, backslashes or tabs
\* that does not start with a space: the arguments are the maximal runs of
\* units other than SPACE, in order
CommandLineToArgvW(line) ==
    LET starts   == {i \in 1..Len(line) :
                        line[i] # SPACE /\ (i = 1 \/ line[i - 1] = SPACE)}
        start(n) == CHOOSE i \in starts : Cardinality({j \in starts : j < i}) = n - 1
        stop(i)  == CHOOSE j \in i..Len(line) :
                        /\ \A k \in i..j : line[k] # SPACE
                        /\ (j = Len(line) \/ line[j + 1] = SPACE)
    IN  [n \in 1..Cardinality(starts) |-> SubSeq(line, start(n), stop(start(n)))]

\* unsafe fn get_cmdline_from_buffer(buffer: *const u16) -> Vec<String>; mem
\* is the memory at the pointer, argv_ok whether CommandLineToArgvW returned
\* a non-null argv.  String::from_utf16_lossy converts as to_string_lossy does
get_cmdline_from_buffer(mem, argv_ok) ==
    LET argv == CommandLineToArgvW(c_string(mem))
    IN  IF ~argv_ok THEN <<>>
        ELSE [n \in 1..Len(argv) |-> to_string_lossy(argv[n])]

\* fn get_cmd_line_new(handle): the queried UNICODE_STRING points at the
\* command line inside the buffer, which ends with the 0 that
\* ph_query_process_variable_size pushed
get_cmd_line_new(pp) ==
    IF ph_query_process_variable_size(pp.cmd_query).result.some
    THEN get_cmdline_from_buffer(pp.cmd_line \o <<NUL>>, pp.argv_ok)
    ELSE <<>>

\* fn get_cmd_line_old(params, handle): get_process_data read the
\* CommandLine.Length bytes of the command line into a Vec of that length
\* (no terminator is stored), and get_cmdline_from_buffer gets the Vec's
\* pointer.  The string CommandLineToArgvW reads runs on through the memory
\* after the Vec's elements, pp.after, which was never initialised, up to the
\* first 0 there
get_cmd_line_old(pp) ==
    IF pp.cmdline_ok
    THEN get_cmdline_from_buffer(pp.cmd_line \o pp.after \o <<NUL>>, pp.argv_ok)
    ELSE <<>>

\* fn get_cmd_line(params, handle)
get_cmd_line(pp) ==
    IF pp.windows_8_1_or_newer THEN get_cmd_line_new(pp) ELSE get_cmd_line_old(pp)

\* unsafe fn get_process_params(handle) -> Result<(cmd, environ, cwd), &str>;
\* pp holds what the host and the OS answered at each step
get_process_params(pp) ==
    IF ~pp.host64 \/ ~pp.wow64_query_ok
       \/ (~pp.wow64 /\ ~pp.basic_ok) \/ ~pp.peb_ok \/ ~pp.params_ok
    THEN [ok |-> FALSE, cmd |-> <<>>, environ |-> <<>>, cwd |-> <<>>]
    ELSE [ok |-> TRUE, cmd |-> get_cmd_line(pp),
          environ |-> get_proc_env(pp.environ), cwd |-> get_cwd(pp.cwd)]

\* the Process literal of new_full's first branch and of new_with_handle
process_with_handle(handle, pid, parent, name, exe, memory, virtual_memory, pp, t) ==
    LET params == get_process_params(pp)
    IN  [handle |-> handle, name |-> name, pid |-> pid, parent |-> parent,
         cmd |-> params.cmd, environ |-> params.environ, exe |-> exe,
         cwd |-> params.cwd, root |-> pop(exe), status |-> "Run",
         memory |-> memory, virtual_memory |-> virtual_memory,
         cpu_usage |-> F32Zero,
         cpu_calc_values |-> CPUsageCalculationValues_new,
         start_time |-> t.start, run_time |-> t.run_time, updated |-> TRUE,
         old_read_bytes |-> Zero64, old_written_bytes |-> Zero64,
         read_bytes |-> Zero64, written_bytes |-> Zero64]

process_without_handle_default_name(pid, parent, name, memory, virtual_memory) ==
    [handle |-> NULL, name |-> <<>>, pid |-> pid, parent |-> parent,
     cmd |-> <<>>, environ |-> <<>>, exe |-> <<>>,
     cwd |-> <<>>, root |-> <<>>, status |-> "Run",
     memory |-> memory, virtual_memory |-> virtual_memory,
     cpu_usage |-> F32Zero,
     cpu_calc_values |-> CPUsageCalculationValues_new,
     start_time |-> Zero64, run_time |-> Zero64, updated |-> TRUE,
     old_read_bytes |-> Zero64, old_written_bytes |-> Zero64,
     read_bytes |-> Zero64, written_bytes |-> Zero64]

\* the Process literal of new_full's else branch (no handle)
process_without_handle(pid, parent, name, memory, virtual_memory) ==
    [handle |-> NULL, name |-> name, pid |-> pid, parent |-> parent,
     cmd |-> <<>>, environ |-> <<>>, exe |-> <<>>,
     cwd |-> <<>>, root |-> <<>>, status |-> "Run",
     memory |-> memory, virtual_memory |-> virtual_memory,
     cpu_usage |-> F32Zero,
     cpu_calc_values |-> CPUsageCalculationValues_new,
     start_time |-> Zero64, run_time |-> Zero64, updated |-> TRUE,
     old_read_bytes |-> Zero64, old_written_bytes |-> Zero64,
     read_bytes |-> Zero64, written_bytes |-> Zero64]

(***************************************************************************)
(* Samplers                                                                *)
(***************************************************************************)
process_times_any_handle(handle, r) == r

\* GetProcessTimes(*p.handle, ..) as compute_cpu_usage calls it: fsys and
\* fuser stay zeroed when the handle is null and the call fails
process_times(handle, r) ==
    IF handle = NULL THEN [r EXCEPT !.sys = Zero64, !.user = Zero64] ELSE r

\* the four deltas compute_cpu_usage takes between the reading r and the
\* values stored by the previous sample
cpu_deltas(cv, r) ==
    [delta_global_kernel_time |-> check_sub(r.global_kernel_time, cv.old_system_sys_cpu),
     delta_global_user_time   |-> check_sub(r.global_user_time, cv.old_system_user_cpu),
     delta_user_time          |-> check_sub(r.user, cv.old_process_user_cpu),
     delta_sys_time           |-> check_sub(r.sys, cv.old_process_sys_cpu)]

compute_cpu_usage_keep_usage(q, nb_processors, r) ==
    LET d == cpu_deltas(q.cpu_calc_values, r)
        denominator == U64ToNat(U64Plus(d.delta_global_user_time, d.delta_global_kernel_time))
        numerator   == U64ToNat(U64Plus(d.delta_user_time, d.delta_sys_time))
    IN  IF denominator = 0 THEN q
        ELSE [q EXCEPT
                !.cpu_usage = MulF32(MulF32(NatToF32(100),
                                            QuotientF32(numerator, denominator)),
                                     NatToF32(nb_processors)),
                !.cpu_calc_values = [old_process_user_cpu |-> r.user,
                                     old_process_sys_cpu  |-> r.sys,
                                     old_system_user_cpu  |-> r.global_user_time,
                                     old_system_sys_cpu   |-> r.global_kernel_time]]

compute_cpu_usage_no_processors(q, nb_processors, r) ==
    LET d == cpu_deltas(q.cpu_calc_values, r)
        denominator == U64ToNat(U64Plus(d.delta_global_user_time, d.delta_global_kernel_time))
        numerator   == U64ToNat(U64Plus(d.delta_user_time, d.delta_sys_time))
    IN  IF denominator = 0 THEN [q EXCEPT !.cpu_usage = F32Zero]
        ELSE [q EXCEPT
                !.cpu_usage = MulF32(NatToF32(100), QuotientF32(numerator, denominator)),
                !.cpu_calc_values = [old_process_user_cpu |-> r.user,
                                     old_process_sys_cpu  |-> r.sys,
                                     old_system_user_cpu  |-> r.global_user_time,
                                     old_system_sys_cpu   |-> r.global_kernel_time]]

\* pub(crate) fn compute_cpu_usage(p: &mut Process, nb_processors: u64); r is
\* the reading: sys, user (GetProcessTimes), global_kernel_time,
\* global_user_time (GetSystemTimes)
compute_cpu_usage(q, nb_processors, r) ==
    LET d == cpu_deltas(q.cpu_calc_values, r)
        denominator == U64ToNat(U64Plus(d.delta_global_user_time, d.delta_global_kernel_time))
        numerator   == U64ToNat(U64Plus(d.delta_user_time, d.delta_sys_time))
    IN  IF denominator = 0 THEN [q EXCEPT !.cpu_usage = F32Zero]
        ELSE [q EXCEPT
                !.cpu_usage = MulF32(MulF32(NatToF32(100),
                                            QuotientF32(numerator, denominator)),
                                     NatToF32(nb_processors)),
                !.cpu_calc_values = [old_process_user_cpu |-> r.user,
                                     old_process_sys_cpu  |-> r.sys,
                                     old_system_user_cpu  |-> r.global_user_time,
                                     old_system_sys_cpu   |-> r.global_kernel_time]]

\* pub(crate) fn update_disk_usage(p: &mut Process); io is what
\* GetProcessIoCounters answered (it fails on a null handle)
update_disk_usage(q, io) ==
    IF q.handle = NULL \/ ~io.ok THEN q
    ELSE [q EXCEPT !.old_read_bytes = q.read_bytes,
                   !.old_written_bytes = q.written_bytes,
                   !.read_bytes = io.ReadTransferCount,
                   !.written_bytes = io.WriteTransferCount]

\* fn disk_usage(&self) -> DiskUsage: the two differences are plain `-`
disk_usage(q) ==
    LET w == u64_sub(q.written_bytes, q.old_written_bytes)
        r == u64_sub(q.read_bytes, q.old_read_bytes)
    IN  [overflow            |-> w.overflow \/ r.overflow,
         written_bytes       |-> w.value,
         total_written_bytes |-> q.written_bytes,
         read_bytes          |-> r.value,
         total_read_bytes    |-> q.read_bytes]

\* pub(crate) fn update(&mut self, refresh_kind, nb_processors, now); the
\* last statement but one is the plain `now - self.start_time()`, which a
\* checked build panics on when now < start_time, leaving run_time and
\* updated as they were
update(q, checked, refresh_kind, nb_processors, now, r, io) ==
    LET q1 == IF refresh_kind.cpu
              THEN compute_cpu_usage(q, nb_processors, process_times(q.handle, r))
              ELSE q
        q2 == IF refresh_kind.disk_usage THEN update_disk_usage(q1, io) ELSE q1
        s  == u64_sub(now, q2.start_time)
    IN  [overflow |-> s.overflow,
         process  |-> IF s.overflow /\ checked THEN q2
                      ELSE [q2 EXCEPT !.run_time = s.value, !.updated = TRUE]]

(***************************************************************************)
(* Construction and destruction                                            *)
(***************************************************************************)
\* Option<Pid>: <<>> is None, <<pid>> is Some(pid)
SomePid(pid) == <<pid>>
NonePid == <<>>

\* fn new_with_handle(pid, parent, process_handler, now) -> Process; x holds
\* the OS answers.  In a checked build the overflow of the start-time
\* subtraction panics before the Process value exists
new_with_handle(checked, pid, parent, process_handler, now, x) ==
    LET name == IF x.module.h_mod_ok THEN x.module.name ELSE <<>>
        t    == get_start_and_run_time(x.creation_time, now)
    IN  [overflow |-> t.overflow,
         panic    |-> t.overflow /\ checked,
         process  |-> process_with_handle(process_handler, pid, parent, name,
                                          x.module.exe, Zero64, Zero64, x.params, t)]

\* pub(crate) fn new_from_pid(pid: Pid, now: u64) -> Option<Process>
new_from_pid(o, checked, pid, now, x) ==
    LET op     == OpenProcess(o, pid, x.granted)
        parent == IF x.InheritedFromUniqueProcessId # 0
                  THEN SomePid(x.InheritedFromUniqueProcessId) ELSE NonePid
        n      == new_with_handle(checked, pid, parent, op.handle, now, x)
    IN  IF op.handle = NULL
        THEN [os |-> op.os, outcome |-> "none", overflow |-> FALSE, process |-> NoProcess]
        ELSE IF ~x.basic_info_ok
        THEN [os |-> CloseHandle(op.os, op.handle), outcome |-> "none",
              overflow |-> FALSE, process |-> NoProcess]
        ELSE IF n.panic
        THEN [os |-> op.os, outcome |-> "panic", overflow |-> TRUE, process |-> NoProcess]
        ELSE [os |-> op.os, outcome |-> "record", overflow |-> n.overflow,
              process |-> n.process]

\* pub(crate) fn new_full(pid, parent, memory, virtual_memory, name, now) -> Process
new_full(o, checked, pid, parent, memory, virtual_memory, name, now, x) ==
    LET g == get_process_handler(o, pid, x.granted)
        t == get_start_and_run_time(x.creation_time, now)
    IN  IF g.handle # NULL
        THEN IF t.overflow /\ checked
             THEN [os |-> g.os, outcome |-> "panic", overflow |-> TRUE,
                   process |-> NoProcess]
             ELSE [os |-> g.os, outcome |-> "record", overflow |-> t.overflow,
                   process |-> process_with_handle(g.handle, pid, parent, name,
                                   x.module.exe, memory, virtual_memory, x.params, t)]
        ELSE [os |-> g.os, outcome |-> "record", overflow |-> FALSE,
              process |-> process_without_handle(pid, parent, name, memory,
                                                 virtual_memory)]

\* impl Drop for Process
drop(o, q) == IF q.handle = NULL THEN o ELSE CloseHandle(o, q.handle)

(***************************************************************************)
(* Inputs                                                                  *)
(***************************************************************************)
Small(n) == U64(0, 0, n)

\* 2021-06-01T05:46:40Z as Unix seconds, and the same instant as 100 ns
\* ticks since 1601-01-01
T_START == U64(0, 162, 2526400)
TICKS_2021 == U64(1326, 7000000, 0)
\* 132,670,000,000,000 ticks: 13,267,000 s after 1601-01-01 (June 1601)
TICKS_1601 == U64(1, 3267000, 0)

\* readings with 100 * u user ticks and 1000 * g machine user ticks; the
\* process kernel ticks are 50 once the process has run, the machine kernel
\* ticks 1000 once the machine has
CpuReadings(k) ==
    { [sys |-> Small(IF u = 0 THEN 0 ELSE 50), user |-> Small(100 * u),
       global_kernel_time |-> Small(IF g = 0 THEN 0 ELSE 1000),
       global_user_time |-> Small(1000 * g)] : u \in 0..k, g \in 0..k }

IoCounters(k) ==
    { [ok |-> ok, ReadTransferCount |-> Small(5 * r), WriteTransferCount |-> Small(w)] :
          ok \in BOOLEAN, r \in 1..k, w \in {7} }

RefreshKinds == [cpu : BOOLEAN, disk_usage : BOOLEAN]

\* the reading of the documented example: 200 user, 50 kernel ticks of the
\* process against 1000 user, 1000 kernel ticks of the machine
ExampleReading == [sys |-> Small(50), user |-> Small(200),
                   global_kernel_time |-> Small(1000), global_user_time |-> Small(1000)]

ExampleIo == [ok |-> TRUE, ReadTransferCount |-> Small(5), WriteTransferCount |-> Small(7)]

\* a module list whose first module is the executable, and one that could
\* not be enumerated
ModuleFound == [h_mod_ok |-> TRUE, name |-> <<80>>, exe |-> <<<<67>>, <<80>>>>]
ModuleMissing == [h_mod_ok |-> FALSE, name |-> <<>>, exe |-> <<>>]

QueryOk == [status1 |-> STATUS_INFO_LENGTH_MISMATCH, return_length |-> 4,
            status2 |-> STATUS_SUCCESS]

\* a parameter block that reads in full, and one whose control block is unreadable
ParamsRead ==
    [host64 |-> TRUE, wow64_query_ok |-> TRUE, wow64 |-> FALSE, basic_ok |-> TRUE,
     peb_ok |-> TRUE, params_ok |-> TRUE, windows_8_1_or_newer |-> TRUE,
     cmd_query |-> QueryOk, cmdline_ok |-> TRUE, argv_ok |-> TRUE,
     cmd_line |-> <<80>>, after |-> <<>>,
     environ |-> [ok |-> TRUE, buffer |-> <<65, 61, 49, 0, 0>>],
     cwd |-> [ok |-> TRUE, buffer |-> <<67, 0>>]]
ParamsUnreadable == [ParamsRead EXCEPT !.peb_ok = FALSE]

OsAnswers(D) ==
    [granted : D.granted, basic_info_ok : BOOLEAN,
     InheritedFromUniqueProcessId : D.inherited,
     module : D.modules, params : D.params, creation_time : D.creation_times]

\* the inputs of the lifecycle specification
LifeInputs ==
    [pids |-> 0..MaxPid,
     nows |-> {U64Minus(T_START, Small(100)), U64Plus(T_START, Small(100))},
     creation_times |-> {Zero64, TICKS_1601, TICKS_2021},
     granted |-> BOOLEAN, inherited |-> {0, 4}, modules |-> {ModuleFound}, params |-> {ParamsRead},
     parents |-> {NonePid, SomePid(4)}, names |-> {<<78>>}, memories |-> {Small(2)},
     kinds |-> RefreshKinds, nbs |-> {4}, stale |-> BOOLEAN,
     readings |-> {ExampleReading}, ios |-> {ExampleIo}]

\* the inputs of the CPU sampling specification
CpuInputs ==
    [pids |-> {1},
     nows |-> {U64Plus(T_START, Small(100))},
     creation_times |-> {TICKS_2021},
     granted |-> BOOLEAN, inherited |-> {0}, modules |-> {ModuleFound}, params |-> {ParamsRead},
     parents |-> {NonePid}, names |-> {<<80>>}, memories |-> {Small(2)},
     kinds |-> {k \in RefreshKinds : k.cpu /\ ~k.disk_usage}, nbs |-> {1, 4},
     stale |-> {FALSE},
     readings |-> CpuReadings(MaxTick), ios |-> {ExampleIo}]

\* the inputs of the disk sampling specification
DiskInputs ==
    [pids |-> {0, 1},
     nows |-> {U64Plus(T_START, Small(100))},
     creation_times |-> {TICKS_2021},
     granted |-> BOOLEAN, inherited |-> {0}, modules |-> {ModuleFound}, params |-> {ParamsRead},
     parents |-> {NonePid}, names |-> {<<80>>}, memories |-> {Small(2)},
     kinds |-> RefreshKinds, nbs |-> {4}, stale |-> {FALSE},
     readings |-> {ExampleReading}, ios |-> IoCounters(MaxIo)]

\* the inputs of the specification of a record without a handle: OpenProcess
\* always refuses, every selection, machine reading and counter set is tried
DegradedInputs ==
    [pids |-> {1},
     nows |-> {U64Plus(T_START, Small(100)), U64Plus(T_START, Small(200))},
     creation_times |-> {TICKS_2021},
     granted |-> {FALSE}, inherited |-> {0}, modules |-> {ModuleFound},
     params |-> {ParamsRead},
     parents |-> {NonePid}, names |-> {<<80>>}, memories |-> {Small(2)},
     kinds |-> RefreshKinds, nbs |-> {1, 4}, stale |-> {FALSE},
     readings |-> CpuReadings(MaxTick), ios |-> IoCounters(MaxIo)]

(***************************************************************************)
(* The state machine                                                       *)
(***************************************************************************)
\* the last call made on the record and what it was given: its arguments,
\* whether the OS granted it a handle, and how it ended
NoCall == [op |-> "none", outcome |-> "none", overflow |-> FALSE, pid |-> 0,
           now |-> Zero64, creation_time |-> Zero64, granted |-> FALSE,
           parent |-> NonePid, name |-> <<>>, memory |-> Zero64,
           virtual_memory |-> Zero64,
           refresh_kind |-> [cpu |-> FALSE, disk_usage |-> FALSE]]

ZeroReading == [sys |-> Zero64, user |-> Zero64,
                global_kernel_time |-> Zero64, global_user_time |-> Zero64]

NoCpuObs == [seen |-> FALSE, repeat |-> FALSE, prev |-> CPUsageCalculationValues_new,
             reading |-> ZeroReading, nb_processors |-> 0,
             deltas |-> cpu_deltas(CPUsageCalculationValues_new, ZeroReading)]

NoUsage == [returned |-> FALSE, written_bytes |-> Zero64, total_written_bytes |-> Zero64,
            read_bytes |-> Zero64, total_read_bytes |-> Zero64]

NoEnv == [called |-> FALSE, ok |-> FALSE, buffer |-> <<>>, result |-> <<>>]

NoQuery == [called |-> FALSE, status1 |-> 0, return_length |-> 0, status2 |-> 0,
            out |-> ph_query_process_variable_size(
                        [status1 |-> 0, return_length |-> 0, status2 |-> 0])]

\* before any record is made: the build is fixed, nothing is open
InitRecord ==
    /\ build \in {"checked", "unchecked"}
    /\ life = "NotCreated"
    /\ p = NoProcess
    /\ os = [open |-> {}, issued |-> {}, open_calls |-> {},
             closes |-> [h \in {NULL} \cup Handles |-> 0]]
    /\ call = NoCall
    /\ cpu_obs = NoCpuObs
    /\ usage = NoUsage

NoParams == [called |-> FALSE, pp |-> ParamsUnreadable,
             out |-> get_process_params(ParamsUnreadable)]

Init ==
    /\ InitRecord
    /\ env = NoEnv
    /\ query = NoQuery
    /\ params_obs = NoParams

\* the effect of a constructor call that ended as r.  (In the two actions
\* below the OS grants a handle only for a pid other than 0, the System Idle
\* Process, and only while the model has handles left to hand out.)
Constructed(r, op, pid, now, x, a) ==
    /\ os' = r.os
    /\ life' = IF r.outcome = "record" THEN "Live" ELSE life
    /\ p' = r.process
    /\ call' = [NoCall EXCEPT !.op = op, !.outcome = r.outcome,
                              !.overflow = r.overflow, !.pid = pid, !.now = now,
                              !.creation_time = x.creation_time,
                              !.granted = x.granted, !.parent = a.parent,
                              !.name = a.name, !.memory = a.memory,
                              !.virtual_memory = a.virtual_memory]
    /\ UNCHANGED <<build, cpu_obs, usage, env, query, params_obs>>

NewFromPid(D) ==
    /\ life = "NotCreated"
    /\ \E pid \in D.pids, now \in D.nows, x \in OsAnswers(D) :
          /\ x.granted => pid # 0 /\ Cardinality(os.issued) < MaxOpens
          /\ Constructed(new_from_pid(os, build = "checked", pid, now, x),
                         "new_from_pid", pid, now, x, NoCall)

NewFull(D) ==
    /\ life = "NotCreated"
    /\ \E pid \in D.pids, now \in D.nows, x \in OsAnswers(D),
          parent \in D.parents, name \in D.names, memory \in D.memories :
          LET virtual_memory == U64Plus(memory, Small(1))
          IN  /\ x.granted => pid # 0 /\ Cardinality(os.issued) < MaxOpens
              /\ Constructed(new_full(os, build = "checked", pid, parent, memory,
                                      virtual_memory, name, now, x),
                             "new_full", pid, now, x,
                             [parent |-> parent, name |-> name, memory |-> memory,
                              virtual_memory |-> virtual_memory])

\* pub(crate) updated: bool.  Between two refreshes the crate may have
\* cleared the flag (stale), to find the records a refresh pass did not reach
mark_stale(q, stale) == [q EXCEPT !.updated = @ /\ ~stale]

\* a refresh of the record as the crate left it
Update(D) ==
    /\ life = "Live"
    /\ \E kind \in D.kinds, nb \in D.nbs, now \in D.nows,
          r \in D.readings, io \in D.ios, stale \in D.stale :
          LET q    == mark_stale(p, stale)
              u    == update(q, build = "checked", kind, nb, now, r, io)
              seen == process_times(p.handle, r)
          IN  /\ p' = u.process
              /\ call' = [NoCall EXCEPT
                            !.op = "update",
                            !.outcome = IF u.overflow /\ build = "checked"
                                        THEN "panic" ELSE "ok",
                            !.overflow = u.overflow, !.pid = p.pid, !.now = now,
                            !.refresh_kind = kind]
              /\ cpu_obs' = IF kind.cpu
                            THEN [seen |-> TRUE,
                                  repeat |-> cpu_obs.seen /\ cpu_obs.reading = seen,
                                  prev |-> p.cpu_calc_values,
                                  reading |-> seen, nb_processors |-> nb,
                                  deltas |-> cpu_deltas(p.cpu_calc_values, seen)]
                            ELSE cpu_obs
    /\ UNCHANGED <<build, life, os, usage, env, query, params_obs>>

DiskUsage ==
    /\ life = "Live"
    /\ LET d == disk_usage(p)
           panics == d.overflow /\ build = "checked"
       IN  /\ usage' = IF panics THEN NoUsage
                       ELSE [returned |-> TRUE, written_bytes |-> d.written_bytes,
                             total_written_bytes |-> d.total_written_bytes,
                             read_bytes |-> d.read_bytes,
                             total_read_bytes |-> d.total_read_bytes]
           /\ call' = [NoCall EXCEPT
                         !.op = "disk_usage",
                         !.outcome = IF panics THEN "panic" ELSE "ok",
                         !.overflow = d.overflow, !.pid = p.pid]
    /\ UNCHANGED <<build, life, p, os, cpu_obs, env, query, params_obs>>

Drop ==
    /\ life = "Live"
    /\ os' = drop(os, p)
    /\ life' = "Destroyed"
    /\ p' = NoProcess
    /\ call' = [NoCall EXCEPT !.op = "drop", !.outcome = "ok", !.pid = p.pid]
    /\ UNCHANGED <<build, cpu_obs, usage, env, query, params_obs>>

Lifecycle(D) ==
    \/ NewFromPid(D)
    \/ NewFull(D)
    \/ Update(D)
    \/ DiskUsage
    \/ Drop

Next == Lifecycle(LifeInputs)
Spec == Init /\ [][Next]_vars

NextCpu == Lifecycle(CpuInputs)
SpecCpu == Init /\ [][NextCpu]_vars

NextDisk == Lifecycle(DiskInputs)
SpecDisk == Init /\ [][NextDisk]_vars

NextDegraded == Lifecycle(DegradedInputs)
SpecDegraded == Init /\ [][NextDegraded]_vars

(***************************************************************************)
(* get_proc_env and ph_query_process_variable_size on their own            *)
(***************************************************************************)
\* NUL, '=', 'A', and one high and one low surrogate
EnvUnits == {NUL, EQUALS, 65, 55296, 56320}

\* "A=1\0B=2\0\0" and "A=1\0NOEQUALS\0B=2\0"
EnvExample1 == <<65, 61, 49, 0, 66, 61, 50, 0, 0>>
EnvExample2 == <<65, 61, 49, 0, 78, 79, 69, 81, 85, 65, 76, 83, 0, 66, 61, 50, 0>>

EnvBuffers ==
    UNION { [1..n -> EnvUnits] : n \in 0..MaxBuf } \cup {EnvExample1, EnvExample2}

InitEnv ==
    /\ InitRecord
    /\ query = NoQuery
    /\ params_obs = NoParams
    /\ env \in [called : {FALSE}, ok : BOOLEAN, buffer : EnvBuffers, result : {<<>>}]

\* one call of get_proc_env on the buffer params.get_environ returned
GetProcEnv ==
    /\ ~env.called
    /\ env' = [env EXCEPT !.called = TRUE, !.result = get_proc_env(env)]
    /\ UNCHANGED <<build, life, p, os, call, cpu_obs, usage, query, params_obs>>

SpecEnv == InitEnv /\ [][GetProcEnv]_vars

Statuses == {STATUS_SUCCESS, STATUS_PENDING, STATUS_BUFFER_OVERFLOW,
             STATUS_BUFFER_TOO_SMALL, STATUS_INFO_LENGTH_MISMATCH, STATUS_ACCESS_DENIED}

InitQuery ==
    /\ InitRecord
    /\ env = NoEnv
    /\ params_obs = NoParams
    /\ query \in [called : {FALSE}, status1 : Statuses, return_length : 0..MaxRet,
                  status2 : Statuses, out : {NoQuery.out}]

\* one call of ph_query_process_variable_size against the OS answers in query
PhQuery ==
    /\ ~query.called
    /\ query' = [query EXCEPT !.called = TRUE,
                              !.out = ph_query_process_variable_size(query)]
    /\ UNCHANGED <<build, life, p, os, call, cpu_obs, usage, env, params_obs>>

SpecQuery == InitQuery /\ [][PhQuery]_vars

(***************************************************************************)
(* get_process_params on its own                                           *)
(***************************************************************************)
QueryDenied == [status1 |-> STATUS_ACCESS_DENIED, return_length |-> 0,
                status2 |-> STATUS_SUCCESS]

\* what the host and the OS can answer a get_process_params call: each step
\* succeeds or fails; the command line is "P" or "P X"; the memory after the
\* unterminated command-line Vec is a 0 at once, or an 'X' and then a 0; the
\* environment block is "A=1\0\0" and the working directory "C"
ParamsInputs ==
    [host64 : BOOLEAN, wow64_query_ok : BOOLEAN, wow64 : BOOLEAN, basic_ok : BOOLEAN,
     peb_ok : BOOLEAN, params_ok : BOOLEAN, windows_8_1_or_newer : BOOLEAN,
     cmd_query : {QueryOk, QueryDenied}, cmdline_ok : BOOLEAN, argv_ok : BOOLEAN,
     cmd_line : {<<80>>, <<80, 32, 88>>}, after : {<<>>, <<88>>},
     environ : {[ok |-> TRUE, buffer |-> <<65, 61, 49, 0, 0>>],
                [ok |-> FALSE, buffer |-> <<>>]},
     cwd : {[ok |-> TRUE, buffer |-> <<67>>], [ok |-> FALSE, buffer |-> <<>>]}]

InitParams ==
    /\ InitRecord
    /\ env = NoEnv
    /\ query = NoQuery
    /\ params_obs \in [called : {FALSE}, pp : ParamsInputs, out : {NoParams.out}]

\* one call of get_process_params against the answers in params_obs.pp
GetProcessParams ==
    /\ ~params_obs.called
    /\ params_obs' = [params_obs EXCEPT !.called = TRUE,
                                        !.out = get_process_params(params_obs.pp)]
    /\ UNCHANGED <<build, life, p, os, call, cpu_obs, usage, env, query>>

SpecParams == InitParams /\ [][GetProcessParams]_vars

(***************************************************************************)
(* Properties                                                              *)
(***************************************************************************)
IsConstructor == call.op \in {"new_from_pid", "new_full"}

\* the rule the creation path applies: the difference when now >= start,
\* otherwise `now` itself
ClampedRunTime(now, start) == IF U64Lt(now, start) THEN now ELSE U64Minus(now, start)

\* C1: after creation with a handle and after every refresh, run_time is the
\* clamped difference of the caller's now and start_time, and the refresh's
\* subtraction never overflows.  (For the refresh this is stated of records
\* whose start_time is a timestamp below 10^14 s, so that the verdict does not
\* rest on a start_time that itself wrapped.)
C1_RunTimeSameRuleOnRefresh ==
    /\ (IsConstructor /\ life = "Live" /\ p.handle # NULL)
          => p.run_time = ClampedRunTime(call.now, p.start_time)
    /\ (call.op = "update" /\ life = "Live" /\ p.start_time[1] = 0)
          => /\ ~call.overflow
             /\ p.run_time = ClampedRunTime(call.now, p.start_time)

SaturatingDifference(a, b) == IF U64Lt(a, b) THEN Zero64 ELSE U64Minus(a, b)

\* C2: every disk_usage() call returns, and reports the recent read and
\* written bytes as the saturating difference of the current and the
\* previous totals, without overflow.
C2_DiskDeltasSaturate ==
    call.op = "disk_usage"
       => /\ ~call.overflow
          /\ usage.returned
          /\ usage.read_bytes = SaturatingDifference(p.read_bytes, p.old_read_bytes)
          /\ usage.written_bytes
                = SaturatingDifference(p.written_bytes, p.old_written_bytes)

\* C3: every handle the OS handed out is either owned by the live record or
\* has been closed exactly once; none is closed twice, none stays open
\* without an owner, and CloseHandle never gets the null handle.
C3_HandleClosedExactlyOnce ==
    /\ os.closes[NULL] = 0
    /\ \A h \in os.issued :
          IF life = "Live" /\ p.handle = h
          THEN h \in os.open /\ os.closes[h] = 0
          ELSE h \notin os.open /\ os.closes[h] = 1

\* C4: no construction path makes an OS open attempt for pid 0.
C4_NoOpenAttemptForPidZero == 0 \notin os.open_calls

\* C5: when a compute_cpu_usage call observes the same reading as the
\* compute_cpu_usage call before it, cpu_usage is 0 after it.
C5_SameReadingGivesZero ==
    (life = "Live" /\ cpu_obs.repeat) => p.cpu_usage = F32Zero

C5_Witness ==
    /\ life = "Live" /\ cpu_obs.repeat /\ p.handle # NULL
    /\ cpu_obs.reading = ExampleReading
    /\ p.cpu_usage = F32Zero

Numerator == U64ToNat(cpu_obs.deltas.delta_user_time)
                + U64ToNat(cpu_obs.deltas.delta_sys_time)
Denominator == U64ToNat(cpu_obs.deltas.delta_global_user_time)
                  + U64ToNat(cpu_obs.deltas.delta_global_kernel_time)

\* floor(16 * v) for an f32 v = <<m, k>>
Sixteenths(v) == IF v[2] + 4 >= 0 THEN v[1] * 2 ^ (v[2] + 4)
                 ELSE v[1] \div 2 ^ (0 - (v[2] + 4))

\* C6: after a compute_cpu_usage call with a non-zero denominator, cpu_usage
\* is 100 * (delta user + delta kernel) / denominator * nb_processors: exactly
\* when the quotient is a binary fraction, to within a sixteenth of a percent
\* otherwise; deltas 200, 50, 1000, 1000 with 4 processors give exactly 50.
C6_UsageFormula ==
    (life = "Live" /\ cpu_obs.seen /\ Denominator # 0)
       => LET exact == 100 * Numerator * cpu_obs.nb_processors
              d     == Sixteenths(p.cpu_usage) - (16 * exact) \div Denominator
          IN  /\ d >= -1 /\ d <= 1
              /\ \A j \in 0..12 :
                    (Numerator * 2 ^ j) % Denominator = 0
                       => p.cpu_usage
                             = StripTwos(100 * cpu_obs.nb_processors
                                            * ((Numerator * 2 ^ j) \div Denominator),
                                         0 - j)
              /\ (Numerator = 250 /\ Denominator = 2000 /\ cpu_obs.nb_processors = 4)
                    => p.cpu_usage = <<25, 1>>

C6_Witness ==
    /\ life = "Live" /\ cpu_obs.seen
    /\ cpu_obs.deltas = [delta_global_kernel_time |-> Small(1000),
                         delta_global_user_time   |-> Small(1000),
                         delta_user_time          |-> Small(200),
                         delta_sys_time           |-> Small(50)]
    /\ cpu_obs.nb_processors = 4
    /\ p.cpu_usage = <<25, 1>>

\* the (current reading, stored previous reading) pairs of the four counters
\* with the delta the last compute_cpu_usage call took for each
Counters ==
    { <<cpu_obs.reading.user, cpu_obs.prev.old_process_user_cpu,
        cpu_obs.deltas.delta_user_time>>,
      <<cpu_obs.reading.sys, cpu_obs.prev.old_process_sys_cpu,
        cpu_obs.deltas.delta_sys_time>>,
      <<cpu_obs.reading.global_user_time, cpu_obs.prev.old_system_user_cpu,
        cpu_obs.deltas.delta_global_user_time>>,
      <<cpu_obs.reading.global_kernel_time, cpu_obs.prev.old_system_sys_cpu,
        cpu_obs.deltas.delta_global_kernel_time>> }

\* C7 as stated: a counter that regressed contributes a delta of zero.
C7_RegressedDeltaIsZero ==
    cpu_obs.seen => \A c \in Counters : U64Lt(c[1], c[2]) => c[3] = Zero64

\* C7 as amended: a counter that regressed contributes its current reading
\* as the delta (zero only when the reading is zero), a counter that did not
\* contributes current - previous, and the usage is zero exactly when the
\* numerator or the denominator built from these deltas is zero.
C7_RegressedDeltaIsReading ==
    cpu_obs.seen
       => /\ \A c \in Counters :
                /\ U64Lt(c[1], c[2]) => c[3] = c[1]
                /\ ~U64Lt(c[1], c[2]) => U64Plus(c[3], c[2]) = c[1]
          /\ life = "Live"
                => (p.cpu_usage = F32Zero <=> (Numerator = 0 \/ Denominator = 0))

C7_Witness ==
    /\ life = "Live" /\ cpu_obs.seen
    /\ cpu_obs.reading.user = Small(100)
    /\ cpu_obs.prev.old_process_user_cpu = Small(200)
    /\ cpu_obs.deltas.delta_user_time = Small(100)
    /\ p.cpu_usage # F32Zero

RECURSIVE SortedSeq(_)
\* the elements of a finite set of numbers in increasing order
SortedSeq(S) ==
    IF S = {} THEN <<>>
    ELSE LET m == CHOOSE x \in S : \A y \in S : x <= y
         IN  <<m>> \o SortedSeq(S \ {m})

\* the entries the environment block `buf` stands for: its NUL-terminated
\* segments, in order, up to the first one without '='
EntriesOf(buf) ==
    LET nuls    == SortedSeq({i \in 1..Len(buf) : buf[i] = NUL})
        seg(j)  == SubSeq(buf, IF j = 1 THEN 1 ELSE nuls[j - 1] + 1, nuls[j] - 1)
        good(j) == \E i \in 1..Len(seg(j)) : seg(j)[i] = EQUALS
        stop    == IF \E j \in 1..Len(nuls) : ~good(j)
                   THEN CHOOSE j \in 1..Len(nuls) :
                            ~good(j) /\ \A i \in 1..(j - 1) : good(i)
                   ELSE Len(nuls) + 1
    IN  [j \in 1..(stop - 1) |-> to_string_lossy(seg(j))]

\* C8: get_proc_env returns, in buffer order, exactly the NUL-terminated
\* segments before the first NUL-terminated segment without '=', nothing
\* after it and never an unterminated tail; "A=1\0B=2\0\0" gives
\* ["A=1", "B=2"] and "A=1\0NOEQUALS\0B=2\0" gives ["A=1"].
C8_EnvironmentEntries ==
    env.called
       => /\ env.ok => env.result = EntriesOf(env.buffer)
          /\ ~env.ok => env.result = <<>>
          /\ (env.ok /\ env.buffer = EnvExample1)
                => env.result = << <<65, 61, 49>>, <<66, 61, 50>> >>
          /\ (env.ok /\ env.buffer = EnvExample2)
                => env.result = << <<65, 61, 49>> >>

C8_Witness ==
    /\ env.called /\ env.ok /\ env.buffer = EnvExample2
    /\ env.result = << <<65, 61, 49>> >>

SizeNegotiated(q) ==
    q.status1 \in {STATUS_BUFFER_OVERFLOW, STATUS_BUFFER_TOO_SMALL,
                   STATUS_INFO_LENGTH_MISMATCH}

\* C9 as stated: a returned buffer holds exactly the S bytes the first phase
\* reported plus one terminator element.
C9_BufferHoldsReportedSize ==
    (query.called /\ query.out.result.some)
       => 2 * (Len(query.out.result.buffer) - 1) = query.return_length

\* C9 as amended: a buffer is returned exactly when the first phase reports
\* overflow / too small / length mismatch and the second phase succeeds; it
\* then holds floor(S / 2) 16-bit elements (S bytes for even S, S - 1 for odd
\* S) followed by one terminator element set to 0; the second query is told
\* S bytes, never more than the allocation; every other outcome is None with
\* no buffer, and no second query follows any other first-phase status.
C9_VariableSizeQuery ==
    query.called
       => LET o == query.out
              b == o.result.buffer
          IN  /\ o.result.some <=> (SizeNegotiated(query) /\ query.status2 >= 0)
              /\ o.result.some
                    => /\ Len(b) = query.return_length \div 2 + 1
                       /\ b[Len(b)] = 0
                       /\ \A i \in 1..(Len(b) - 1) : b[i] = OS_DATA
                       /\ Len(b) = o.capacity
              /\ ~o.result.some => b = <<>>
              /\ o.second <=> SizeNegotiated(query)
              /\ o.second => o.told = query.return_length /\ o.told <= 2 * o.capacity

C9_Witness ==
    /\ query.called /\ query.out.result.some
    /\ query.status1 = STATUS_INFO_LENGTH_MISMATCH
    /\ query.return_length = 3
    /\ query.out.result.buffer = <<OS_DATA, 0>>

\* tmp / 10_000_000 for the creation time the last constructor read
CreationSeconds == div_10_000_000(call.creation_time)

\* C10 as stated, for the raw ticks of its own example: a constructor that
\* reads 132,670,000,000,000 ticks computes the start time without underflow,
\* the seconds value is 13,267,000,000 and start_time is 1,622,526,400.
C10_StartTimeAsStated ==
    (/\ IsConstructor /\ call.creation_time = TICKS_1601
     /\ (call.outcome = "panic" \/ (life = "Live" /\ p.handle # NULL)))
       => /\ ~call.overflow
          /\ call.outcome = "record"
          /\ CreationSeconds = U64(0, 1326, 7000000)
          /\ p.start_time = T_START

\* C10 as amended: when ticks / 10,000,000 >= 11,644,473,600 the subtraction
\* does not underflow and start_time is the difference; raw ticks
\* 132,670,000,000,000,000 give 13,267,000,000 seconds and start_time
\* 1,622,526,400.  For smaller values (raw ticks 132,670,000,000,000 are
\* 13,267,000 seconds) the subtraction overflows: a checked build panics and
\* makes no record, an unchecked build stores the difference plus 2^64.
C10_StartTime ==
    /\ (IsConstructor /\ life = "Live" /\ p.handle # NULL)
          => /\ call.overflow <=> U64Lt(CreationSeconds, EPOCH_DELTA)
             /\ ~call.overflow => U64Plus(p.start_time, EPOCH_DELTA) = CreationSeconds
             /\ call.overflow
                   => /\ build = "unchecked"
                      /\ U64Plus(p.start_time, EPOCH_DELTA)
                            = U64Plus(CreationSeconds, TwoTo64)
             /\ call.creation_time = TICKS_2021
                   => /\ CreationSeconds = U64(0, 1326, 7000000)
                      /\ p.start_time = U64(0, 162, 2526400)
             /\ call.creation_time = TICKS_1601 => CreationSeconds = U64(0, 1, 3267000)
    /\ (IsConstructor /\ call.outcome = "panic")
          => /\ build = "checked" /\ life = "NotCreated"
             /\ U64Lt(CreationSeconds, EPOCH_DELTA)

C10_Witness ==
    /\ IsConstructor /\ life = "Live" /\ p.handle # NULL
    /\ call.creation_time = TICKS_2021
    /\ p.start_time = U64(0, 162, 2526400)

\* C11: a constructor whose handle acquisition fails raises no error:
\* new_from_pid returns no record; new_full returns a record with a null
\* handle, the caller's pid, parent, name and memory figures, empty cmd,
\* environ, exe, cwd and root, start_time, run_time and cpu_usage 0, status
\* Run and updated = true.
C11_AcquisitionFailure ==
    /\ (call.op = "new_from_pid" /\ ~call.granted)
          => /\ call.outcome = "none" /\ ~call.overflow
             /\ life = "NotCreated" /\ p = NoProcess
    /\ (call.op = "new_full" /\ ~call.granted)
          => /\ call.outcome = "record" /\ ~call.overflow
             /\ life = "Live"
             /\ p.handle = NULL
             /\ p.pid = call.pid /\ p.parent = call.parent /\ p.name = call.name
             /\ p.memory = call.memory /\ p.virtual_memory = call.virtual_memory
             /\ p.cmd = <<>> /\ p.environ = <<>> /\ p.exe = <<>>
             /\ p.cwd = <<>> /\ p.root = <<>>
             /\ p.start_time = Zero64 /\ p.run_time = Zero64
             /\ p.cpu_usage = F32Zero
             /\ p.status = "Run" /\ p.updated

C11_Witness ==
    /\ call.op = "new_full" /\ ~call.granted /\ call.pid = 1
    /\ life = "Live" /\ p.handle = NULL
    /\ p.name = <<78>> /\ p.parent = SomePid(4)
    /\ p.memory = Small(2) /\ p.virtual_memory = Small(3)

\* the stored previous ticks a sample leaves when it advances them
StoredFrom(r) == [old_process_user_cpu |-> r.user,
                  old_process_sys_cpu  |-> r.sys,
                  old_system_user_cpu  |-> r.global_user_time,
                  old_system_sys_cpu   |-> r.global_kernel_time]

SampledCpu == life = "Live" /\ call.op = "update" /\ call.refresh_kind.cpu

\* C12, for readings whose machine ticks are not zero: after a
\* compute_cpu_usage call the stored previous ticks equal the readings of
\* that call, and cpu_usage is 0 when the denominator was zero.
C12_AlwaysAdvances ==
    (/\ SampledCpu
     /\ cpu_obs.reading.global_user_time # Zero64
     /\ cpu_obs.reading.global_kernel_time # Zero64)
       => /\ p.cpu_calc_values = StoredFrom(cpu_obs.reading)
          /\ Denominator = 0 => p.cpu_usage = F32Zero

\* the steps of get_process_params before the three fields are extracted:
\* 64-bit host, bitness query, basic-information query (64-bit targets only),
\* control-block read, parameter-structure read
EarlierStepsOk(pp) ==
    /\ pp.host64 /\ pp.wow64_query_ok
    /\ pp.wow64 \/ pp.basic_ok
    /\ pp.peb_ok /\ pp.params_ok

\* the command line was obtained (by the query on Windows 8.1 or newer, by
\* reading the target's memory before) and split into arguments
CommandLineRead(pp) ==
    /\ pp.argv_ok
    /\ IF pp.windows_8_1_or_newer
       THEN SizeNegotiated(pp.cmd_query) /\ pp.cmd_query.status2 >= 0
       ELSE pp.cmdline_ok

\* the arguments of the two command lines "P" and "P X"
ArgumentsOf(line) == IF line = <<80>> THEN << <<80>> >> ELSE << <<80>>, <<88>> >>

\* C13: when an earlier step fails the three fields are defaulted together;
\* otherwise each field is decided by its own read alone: the arguments of
\* the target's command line, the entries of its environment block and its
\* working directory when that field's read succeeded, the empty default
\* when it failed.
C13_FieldsIndependent ==
    params_obs.called
       => LET pp  == params_obs.pp
              out == params_obs.out
          IN  /\ ~EarlierStepsOk(pp)
                    => out = [ok |-> FALSE, cmd |-> <<>>, environ |-> <<>>, cwd |-> <<>>]
              /\ EarlierStepsOk(pp)
                    => /\ out.ok
                       /\ out.cmd = IF CommandLineRead(pp)
                                    THEN ArgumentsOf(pp.cmd_line) ELSE <<>>
                       /\ out.environ = IF pp.environ.ok
                                        THEN EntriesOf(pp.environ.buffer) ELSE <<>>
                       /\ out.cwd = IF pp.cwd.ok THEN pp.cwd.buffer ELSE <<>>

\* the fields no refresh may touch
IdentityOf(r) == [r EXCEPT !.cpu_usage = F32Zero,
                           !.cpu_calc_values = CPUsageCalculationValues_new,
                           !.read_bytes = Zero64, !.old_read_bytes = Zero64,
                           !.written_bytes = Zero64, !.old_written_bytes = Zero64,
                           !.run_time = Zero64, !.updated = TRUE]

\* what the CPU sampler and the disk sampler keep in the record
CpuFiguresOf(r) == <<r.cpu_usage, r.cpu_calc_values>>
DiskFiguresOf(r) == <<r.read_bytes, r.old_read_bytes,
                      r.written_bytes, r.old_written_bytes>>

\* the record is made once, refreshed while it lives and destroyed once
LifecycleStep ==
    life' # life => \/ life = "NotCreated" /\ life' = "Live"
                    \/ life = "Live" /\ life' = "Destroyed"

\* a call of Process::update leaves alone what was not requested and every
\* identity field
RefreshFrame ==
    call'.op = "update"
       => /\ life = "Live" /\ life' = "Live"
          /\ ~call'.refresh_kind.cpu => CpuFiguresOf(p') = CpuFiguresOf(p)
          /\ ~call'.refresh_kind.disk_usage => DiskFiguresOf(p') = DiskFiguresOf(p)
          /\ IdentityOf(p') = IdentityOf(p)

\* C14: a refresh runs only the requested samplers (without CPU, cpu_usage
\* and the stored ticks are unchanged; without disk, the read and written
\* totals are unchanged), leaves the identity fields and the handle
\* unchanged and sets updated = true; the record only moves from created
\* through refreshes to destroyed.
C14_RefreshOnlyRequested ==
    [][/\ LifecycleStep
       /\ RefreshFrame
       /\ call'.op = "update" => p'.updated]_vars

\* the part of C14 that every call of update satisfies, ended or panicked
C14_FrameOfEveryCall == [][LifecycleStep /\ RefreshFrame]_vars

\* the flag is set by every call of update that returns
C14_UpdatedWhenReturned ==
    [][(call'.op = "update" /\ call'.outcome = "ok") => p'.updated]_vars

\* a record made by new_full when OpenProcess refused
Degraded == life = "Live" /\ p.handle = NULL

\* C15: whatever refreshes a record without a handle has been through,
\* cpu_usage is 0, the stored process ticks are 0, the current and previous
\* read and written totals are 0, and so is every figure disk_usage returns.
C15_DegradedStaysDefault ==
    Degraded
       => /\ p.cpu_usage = F32Zero
          /\ p.cpu_calc_values.old_process_user_cpu = Zero64
          /\ p.cpu_calc_values.old_process_sys_cpu = Zero64
          /\ DiskFiguresOf(p) = <<Zero64, Zero64, Zero64, Zero64>>
          /\ usage \in {NoUsage, [NoUsage EXCEPT !.returned = TRUE]}

\* a record without a handle whose latest refresh ran both samplers, against
\* machine ticks that had moved since the sample before it, while the OS had
\* counters to give had the handle been valid
C15_Witness ==
    /\ Degraded
    /\ call.op = "update" /\ call.refresh_kind.cpu /\ call.refresh_kind.disk_usage
    /\ cpu_obs.prev.old_system_user_cpu # Zero64
    /\ Denominator > 0
    /\ p.cpu_calc_values.old_system_user_cpu = Small(2000)
    /\ usage.returned
====
